---- MODULE Spec2Model ----
(***************************************************************************)
(* Model of arco_prices.py: the tiered price evaluation                    *)
(* (calculate_tiered_cost), the cost simulator (run_simulation) and the    *)
(* sweeps the page script builds on them (three volume sweeps, the         *)
(* qualification x booking heatmap and its target marker).                 *)
(*                                                                         *)
(* Numbers.  The program computes on Python/NumPy floats.  The model       *)
(* computes on exact rationals [n |-> numerator, d |-> denominator > 0] in *)
(* lowest terms, so that equal values are equal records.  Rounding of      *)
(* binary floating point is not modelled.                                  *)
(***************************************************************************)
EXTENDS Integers, Sequences, FiniteSets, TLC

VARIABLES
    target_total_leads,         \* slider value, line 126
    target_response_rate,       \* slider value / 100, line 136
    target_qualification_rate,  \* line 149
    target_booking_rate,        \* line 162
    minimum_billing,            \* number input, line 176
    dicts,                      \* the dict objects alive: reference -> rates dict
    rates,                      \* reference of the base rates dict, line 249
    scenario_rates,             \* reference bound by the volume sweeps (0: unbound)
    temp_rates,                 \* reference bound by the heatmap loop (0: unbound)
    pricing_tables,             \* the caller's DataFrames, line 254
    last_call,                  \* arguments of the most recent call, by value
    eval_result,                \* what the most recent calculate_tiered_cost call returned
    sim_result,                 \* what the most recent run_simulation call returned
    target_results,             \* line 264
    pc,                         \* position of the page script
    idx,                        \* index of the volume-sweep scenario being drawn
    vi,                         \* index into lead_volumes of the next volume
    costs,                      \* the series under construction
    qi,                         \* heatmap row being built (index into qual_rates_heatmap)
    bj,                         \* heatmap column being built
    traces,                     \* the series added to the three volume figures
    cost_row,                   \* the heatmap row under construction
    cpa_row,
    meetings_row,
    cost_matrix,
    cpa_matrix,
    meetings_matrix,
    target_qual_idx,            \* row of the target marker on the heatmaps (-1: unbound)
    target_book_idx             \* column of the target marker (-1: unbound)

vars == << target_total_leads, target_response_rate, target_qualification_rate,
           target_booking_rate, minimum_billing, dicts, rates, scenario_rates,
           temp_rates, pricing_tables, last_call, eval_result, sim_result,
           target_results, pc, idx, vi, costs, qi, bj, traces, cost_row, cpa_row,
           meetings_row, cost_matrix, cpa_matrix,
           meetings_matrix, target_qual_idx, target_book_idx >>

----------------------------------------------------------------------------
(* Exact arithmetic standing for Python's float operators.                 *)

Abs(x) == IF x < 0 THEN -x ELSE x

RECURSIVE GCD(_, _)
GCD(a, b) == IF b = 0 THEN a ELSE GCD(b, a % b)

LCM(a, b) == (a \div GCD(a, b)) * b

\* the rational n/d (d > 0) in lowest terms
Norm(n, d) == LET g == GCD(Abs(n), d) IN [n |-> n \div g, d |-> d \div g]

R(n, d) == Norm(n, d)

RInt(i) == [n |-> i, d |-> 1]

Zero == RInt(0)

RAdd(a, b) == LET l == LCM(a.d, b.d)
              IN Norm(a.n * (l \div a.d) + b.n * (l \div b.d), l)

RSub(a, b) == LET l == LCM(a.d, b.d)
              IN Norm(a.n * (l \div a.d) - b.n * (l \div b.d), l)

RMul(a, b) == LET g1 == GCD(Abs(a.n), b.d)
                  g2 == GCD(Abs(b.n), a.d)
              IN Norm((a.n \div g1) * (b.n \div g2), (a.d \div g2) * (b.d \div g1))

RLt(a, b) == LET l == LCM(a.d, b.d)
             IN a.n * (l \div a.d) < b.n * (l \div b.d)

RLe(a, b) == ~RLt(b, a)

RGt(a, b) == RLt(b, a)

\* Python's builtin min(a, b) and max(a, b): the first argument unless the
\* second is strictly smaller (larger)
RMin(a, b) == IF RLt(b, a) THEN b ELSE a

RMax(a, b) == IF RGt(b, a) THEN b ELSE a

\* the outcome of a division that raised: no rational has denominator 0
ZeroDivisionError == [n |-> 0, d |-> 0]

\* Python's a / b: raises ZeroDivisionError when b == 0
RDiv(a, b) == IF b.n = 0 THEN ZeroDivisionError
              ELSE IF b.n > 0 THEN RMul(a, [n |-> b.d, d |-> b.n])
              ELSE RMul(a, [n |-> -b.d, d |-> -b.n])

----------------------------------------------------------------------------
(* DataFrames.  A price table is [rows, dtypes]: rows is the sequence of   *)
(* its rows in index order, each [Minimo, Maximo, Valor]; dtypes gives the *)
(* dtype of each column.                                                   *)

\* one cell converted to float: every value the model holds is exactly
\* representable, so the number is kept and only the dtype changes
ToFloat(v) == [n |-> v.n, d |-> v.d]

\* tiers_df[col] = tiers_df[col].astype(float): assigns the converted column
\* into the DataFrame object the caller passed
AsTypeFloat(df, col) ==
    [rows   |-> [i \in DOMAIN df.rows |-> [df.rows[i] EXCEPT ![col] = ToFloat(@)]],
     dtypes |-> [df.dtypes EXCEPT ![col] = "float64"]]

\* insertion of one row into a sequence sorted by Minimo, after its equals
RECURSIVE InsertByMinimo(_, _)
InsertByMinimo(sorted, row) ==
    IF sorted = << >> THEN << row >>
    ELSE IF RLt(row.Minimo, Head(sorted).Minimo) THEN << row >> \o sorted
    ELSE << Head(sorted) >> \o InsertByMinimo(Tail(sorted), row)

RECURSIVE SortRows(_, _)
SortRows(rows, acc) ==
    IF rows = << >> THEN acc
    ELSE SortRows(Tail(rows), InsertByMinimo(acc, Head(rows)))

\* tiers_df.sort_values(by="Minimo").reset_index(drop=True): a new DataFrame
sort_values(df) == [rows |-> SortRows(df.rows, << >>), dtypes |-> df.dtypes]

----------------------------------------------------------------------------
(* calculate_tiered_cost, lines 17-43                                      *)

\* a guard that lets every tier contribute
tier_applies_always(quantity, min_val) == TRUE

\* if quantity > min_val
tier_applies(quantity, min_val) == RGt(quantity, min_val)

\* the tier charged on everything above its Minimo, its Maximo ignored
items_in_tier_uncapped(quantity, min_val, max_val) == RSub(quantity, min_val)

\* items_in_tier = min(quantity, max_val) - min_val
items_in_tier(quantity, min_val, max_val) == RSub(RMin(quantity, max_val), min_val)

\* volume pricing: the whole quantity at the price of the bracket it falls in
cost_in_tier_flat(quantity, row) ==
    IF RLe(quantity, row.Maximo) THEN RMul(quantity, row.Valor) ELSE Zero

\* cost_in_tier = items_in_tier * price
cost_in_tier(quantity, row) ==
    RMul(items_in_tier(quantity, row.Minimo, row.Maximo), row.Valor)

\* for _, row in tiers_df.iterrows(): ... total_cost += cost_in_tier
RECURSIVE iterrows(_, _, _)
iterrows(rows, quantity, total_cost) ==
    IF rows = << >> THEN total_cost
    ELSE iterrows(Tail(rows), quantity,
                  IF tier_applies(quantity, Head(rows).Minimo)
                  THEN RAdd(total_cost, cost_in_tier(quantity, Head(rows)))
                  ELSE total_cost)

\* the three conversions, the price column also rescaled from cents where it
\* is assigned into the caller's DataFrame
coerce_types_rescaling(tiers_df) ==
    LET df == AsTypeFloat(AsTypeFloat(AsTypeFloat(tiers_df, "Minimo"), "Maximo"),
                          "Valor")
    IN [rows   |-> [i \in DOMAIN df.rows |->
                      [df.rows[i] EXCEPT !.Valor = RDiv(@, RInt(100))]],
        dtypes |-> df.dtypes]

\* the three astype assignments of lines 26-28, on the caller's DataFrame
coerce_types(tiers_df) ==
    AsTypeFloat(AsTypeFloat(AsTypeFloat(tiers_df, "Minimo"), "Maximo"), "Valor")

\* the call: raised names the exception that ended it ("none": it returned;
\* the function has no raise and checks neither quantity nor tiers), cost is
\* the value returned, df the caller's DataFrame after it
calculate_tiered_cost(quantity, tiers_df) ==
    IF quantity = Zero
    THEN [raised |-> "none", cost |-> Zero, df |-> tiers_df]
    ELSE LET caller_df == coerce_types(tiers_df)
             sorted    == sort_values(caller_df)
         IN [raised |-> "none",
             cost   |-> iterrows(sorted.rows, quantity, Zero),
             df     |-> caller_df]

----------------------------------------------------------------------------
(* run_simulation, lines 46-90                                             *)

\* the floor left out
apply_minimum_ignored(calculated_cost, minimum) == calculated_cost

\* total_cost = max(calculated_cost, minimum_billing)
apply_minimum(calculated_cost, minimum) == RMax(calculated_cost, minimum)

\* cpl = total_cost / total_leads if total_leads > 0 else 0
compute_cpl(total_cost, total_leads) ==
    IF RGt(total_leads, Zero) THEN RDiv(total_cost, total_leads) ELSE Zero

\* the guard on the numerator instead of the denominator
compute_cpa_unguarded(total_cost, num_booked) ==
    IF RGt(total_cost, Zero) THEN RDiv(total_cost, num_booked) ELSE Zero

\* the total cost reported when nothing was booked
compute_cpa_else_total(total_cost, num_booked) ==
    IF RGt(num_booked, Zero) THEN RDiv(total_cost, num_booked) ELSE total_cost

\* cpa = total_cost / num_booked if num_booked > 0 else 0
compute_cpa(total_cost, num_booked) ==
    IF RGt(num_booked, Zero) THEN RDiv(total_cost, num_booked) ELSE Zero

\* the booked count cut to a whole number of meetings: int(...)
funnel_booked_truncated(num_qualified, booking) ==
    LET product == RMul(num_qualified, booking)
    IN RInt(IF product.n >= 0 THEN product.n \div product.d
            ELSE -((-product.n) \div product.d))

\* num_booked = num_qualified * rates["booking"]
funnel_booked(num_qualified, booking) == RMul(num_qualified, booking)

\* the call: raised names the exception that ended it ("none": it returned),
\* result is the dict returned, tables the caller's pricing_tables after it
run_simulation(total_leads, rts, tables, minimum) ==
    LET num_replies     == RMul(total_leads, rts.response)
        num_no_replies  == RSub(total_leads, num_replies)
        num_qualified   == RMul(num_replies, rts.qualification)
        num_booked      == funnel_booked(num_qualified, rts.booking)
        cost_no_reply   == RMul(num_no_replies, tables.no_reply.rows[1].Valor)
        replies_call    == calculate_tiered_cost(num_replies, tables.leads)
        qualified_call  == calculate_tiered_cost(num_qualified, tables.qualified)
        booked_call     == calculate_tiered_cost(num_booked, tables.booked)
        calculated_cost == RAdd(RAdd(RAdd(cost_no_reply, replies_call.cost),
                                     qualified_call.cost), booked_call.cost)
        total_cost      == apply_minimum(calculated_cost, minimum)
        cpl             == compute_cpl(total_cost, total_leads)
        cpa             == compute_cpa(total_cost, num_booked)
    IN [raised |-> IF cpl = ZeroDivisionError \/ cpa = ZeroDivisionError
                   THEN "ZeroDivisionError" ELSE "none",
        result |-> [total_leads     |-> total_leads,
                    num_no_replies  |-> num_no_replies,
                    num_replies     |-> num_replies,
                    num_qualified   |-> num_qualified,
                    num_booked      |-> num_booked,
                    cost_no_reply   |-> cost_no_reply,
                    cost_replies    |-> replies_call.cost,
                    cost_qualified  |-> qualified_call.cost,
                    cost_booked     |-> booked_call.cost,
                    calculated_cost |-> calculated_cost,
                    total_cost      |-> total_cost,
                    cpl             |-> cpl,
                    cpa             |-> cpa],
        tables |-> [tables EXCEPT !.leads     = replies_call.df,
                                  !.qualified = qualified_call.df,
                                  !.booked    = booked_call.df]]

----------------------------------------------------------------------------
(* The tables the page builds, lines 188-245                               *)

Tier(lo, hi, price) == [Minimo |-> lo, Maximo |-> hi, Valor |-> price]

\* pd.DataFrame of rows whose Minimo and Maximo are Python ints and whose
\* Valor is a Python float
TierFrame(rows) ==
    [rows |-> rows,
     dtypes |-> [Minimo |-> "int64", Maximo |-> "int64", Valor |-> "float64"]]

df_no_reply ==
    [rows |-> << [Valor |-> R(1, 5)] >>, dtypes |-> [Valor |-> "float64"]]

df_leads ==
    TierFrame(<< Tier(RInt(0), RInt(500), RInt(5)),
                 Tier(RInt(500), RInt(1500), R(19, 5)),
                 Tier(RInt(1500), RInt(2000), RInt(3)),
                 Tier(RInt(2000), RInt(3000), R(12, 5)),
                 Tier(RInt(3000), RInt(99999), RInt(2)) >>)

df_qualified ==
    TierFrame(<< Tier(RInt(0), RInt(50), RInt(20)),
                 Tier(RInt(50), RInt(100), RInt(15)),
                 Tier(RInt(100), RInt(150), RInt(10)),
                 Tier(RInt(150), RInt(99999), RInt(5)) >>)

df_booked ==
    TierFrame(<< Tier(RInt(0), RInt(20), RInt(100)),
                 Tier(RInt(20), RInt(50), RInt(80)),
                 Tier(RInt(50), RInt(100), RInt(60)),
                 Tier(RInt(100), RInt(99999), RInt(50)) >>)

----------------------------------------------------------------------------
(* The rates dict and its copies.  dicts maps each live reference to the   *)
(* dict it names; a copy is a new object under a reference of its own.     *)

BaseRef == 1
ScenarioRef == 2
TempRef == 3

\* no copy: the same dict under a second name
DictAlias(heap, ref, slot) == [heap |-> heap, ref |-> ref]

\* d.copy(): a new dict with the same items, bound to `slot`
DictCopy(heap, ref, slot) ==
    [heap |-> [r \in (DOMAIN heap) \cup {slot} |->
                   IF r = slot THEN heap[ref] ELSE heap[r]],
     ref  |-> slot]

\* d[key] = value
DictSet(heap, ref, key, value) == [heap EXCEPT ![ref][key] = value]

----------------------------------------------------------------------------
(* The inputs the page collects, lines 126-259                             *)

\* what the lead slider can give (0 to 3500 in steps of 100): a sample
LeadChoices == {RInt(0), RInt(2500)}

\* what the three rate sliders can give (0% to 100% in steps of 0.5%, / 100)
ResponseChoices == {R(3, 20), RInt(1)}
QualificationChoices == {Zero, R(1, 4)}
BookingChoices == {Zero, R(33, 100)}

\* what the minimum-billing input can give (0 to 50000)
MinimumChoices == {Zero, RInt(1500)}

\* the leads table as built, and as a user may leave it in the data editor
\* (rows out of order, one range covered twice)
LeadsTableChoices ==
    {df_leads,
     TierFrame(<< Tier(RInt(500), RInt(1500), R(19, 5)),
                  Tier(RInt(0), RInt(500), RInt(5)),
                  Tier(RInt(200), RInt(500), RInt(1)) >>)}

NoCall(rts, minimum) ==
    [fn |-> "none", site |-> "none", quantity |-> Zero, table |-> "none",
     rates |-> rts, minimum_billing |-> minimum,
     raised |-> "none"]

NoResult ==
    [total_leads |-> Zero, num_no_replies |-> Zero, num_replies |-> Zero,
     num_qualified |-> Zero, num_booked |-> Zero, cost_no_reply |-> Zero,
     cost_replies |-> Zero, cost_qualified |-> Zero, cost_booked |-> Zero,
     calculated_cost |-> Zero, total_cost |-> Zero, cpl |-> Zero, cpa |-> Zero]

NoTraces == [response |-> << >>, qualification |-> << >>, booking |-> << >>]

\* the state once the widgets are read and rates / pricing_tables are built
InitWith(leads, resp, qual, book, minimum, leads_table) ==
    /\ target_total_leads = leads
    /\ target_response_rate = resp
    /\ target_qualification_rate = qual
    /\ target_booking_rate = book
    /\ minimum_billing = minimum
    /\ rates = BaseRef
    /\ dicts = [r \in {BaseRef} |->
                  [response |-> resp, qualification |-> qual, booking |-> book]]
    /\ scenario_rates = 0
    /\ temp_rates = 0
    /\ pricing_tables = [no_reply |-> df_no_reply, leads |-> leads_table,
                         qualified |-> df_qualified, booked |-> df_booked]
    /\ last_call = NoCall(dicts[BaseRef], minimum)
    /\ eval_result = Zero
    /\ sim_result = NoResult
    /\ target_results = NoResult
    /\ pc = "start"
    /\ idx = 1
    /\ vi = 1
    /\ costs = << >>
    /\ qi = 1
    /\ bj = 1
    /\ traces = NoTraces
    /\ cost_row = << >>
    /\ cpa_row = << >>
    /\ meetings_row = << >>
    /\ cost_matrix = << >>
    /\ cpa_matrix = << >>
    /\ meetings_matrix = << >>
    /\ target_qual_idx = -1
    /\ target_book_idx = -1

Init ==
    \E leads \in LeadChoices, resp \in ResponseChoices,
       qual \in QualificationChoices, book \in BookingChoices,
       minimum \in MinimumChoices, leads_table \in LeadsTableChoices :
        InitWith(leads, resp, qual, book, minimum, leads_table)

\* the configurations a caller of run_simulation may hold
InitSim ==
    \E resp \in ResponseChoices \cup {Zero},
       qual \in QualificationChoices, book \in BookingChoices,
       minimum \in MinimumChoices, leads_table \in LeadsTableChoices :
        InitWith(RInt(2500), resp, qual, book, minimum, leads_table)

----------------------------------------------------------------------------
(* Calls made directly by a caller of the two functions                    *)

\* quantities a caller may pass: negative, zero, fractional, on a tier bound,
\* inside a tier, between two tiers, above every tier
Quantities == {RInt(-100), Zero, R(375, 4), RInt(500), RInt(600), RInt(1000),
               RInt(2000), RInt(3500)}

\* lead volumes a caller may pass
CallLeads == {RInt(-100), Zero, RInt(200), RInt(2500)}

script_vars == << pc, idx, vi, costs, qi, bj, traces, cost_row, cpa_row, meetings_row,
                  cost_matrix, cpa_matrix, meetings_matrix, target_results,
                  target_qual_idx, target_book_idx >>

input_vars == << target_total_leads, target_response_rate,
                 target_qualification_rate, target_booking_rate,
                 minimum_billing, rates >>

\* cost = calculate_tiered_cost(quantity, pricing_tables[name])
Evaluate(quantity, name) ==
    LET out == calculate_tiered_cost(quantity, pricing_tables[name])
    IN /\ last_call' = [fn |-> "calculate_tiered_cost", site |-> "direct",
                        quantity |-> quantity, table |-> name,
                        rates |-> dicts[rates],
                        minimum_billing |-> minimum_billing,
                        raised |-> out.raised]
       /\ eval_result' = out.cost
       /\ pricing_tables' = [pricing_tables EXCEPT ![name] = out.df]
       /\ UNCHANGED << input_vars, script_vars, dicts, scenario_rates,
                       temp_rates, sim_result >>

\* result = run_simulation(total_leads, rates, pricing_tables, minimum_billing)
Simulate(total_leads) ==
    LET out == run_simulation(total_leads, dicts[rates], pricing_tables,
                              minimum_billing)
    IN /\ last_call' = [fn |-> "run_simulation", site |-> "direct",
                        quantity |-> total_leads, table |-> "none",
                        rates |-> dicts[rates],
                        minimum_billing |-> minimum_billing,
                        raised |-> out.raised]
       /\ sim_result' = out.result
       /\ pricing_tables' = out.tables
       /\ UNCHANGED << input_vars, script_vars, dicts, scenario_rates,
                       temp_rates, eval_result >>

CallSimulate == \E total_leads \in CallLeads : Simulate(total_leads)

NextSim == CallSimulate

SpecSim == InitSim /\ [][NextSim]_vars

----------------------------------------------------------------------------
(* calculate_tiered_cost over every small table                            *)

MaxTiers == 2

\* [Minimo, Maximo) ranges a row may hold: adjacent, overlapping, apart, and
\* one with Minimo >= Maximo
TierRanges == { << 0, 500 >>, << 500, 1500 >>, << 0, 1500 >>, << 1500, 3000 >>,
                << 1500, 500 >> }

PriceValues == {RInt(-1), R(19, 5), RInt(5)}

TierRows == { Tier(RInt(range[1]), RInt(range[2]), price) :
                range \in TierRanges, price \in PriceValues }

\* every table of at most MaxTiers rows, rows in any order, overlapping or
\* not, with or without a tier whose Minimo >= Maximo or whose Valor < 0
EvalTables == UNION { { TierFrame(rows) : rows \in [1..n -> TierRows] } :
                        n \in 0..MaxTiers }

InitEval == \E leads_table \in EvalTables :
                InitWith(RInt(2500), R(3, 20), R(1, 4), R(33, 100), Zero,
                         leads_table)

EvaluateLeads == \E quantity \in Quantities : Evaluate(quantity, "leads")

NextEval == EvaluateLeads

SpecEval == InitEval /\ [][NextEval]_vars

----------------------------------------------------------------------------
(* The page script, lines 261-886                                          *)

\* lead_volumes = list(range(0, 3501, 100))
lead_volumes == [i \in 1..36 |-> RInt((i - 1) * 100)]

response_step == R(10, 100)
qualification_step == R(10, 100)
booking_step == R(15, 100)

\* round(x) to the nearest integer, ties to the even one
RoundHalfEven(x) ==
    LET lo   == x.n \div x.d
        twice == 2 * (x.n - lo * x.d)
    IN IF twice < x.d THEN lo
       ELSE IF twice > x.d THEN lo + 1
       ELSE IF lo % 2 = 0 THEN lo ELSE lo + 1

\* f"{tag} ({rate * 100:.1f}%)": the tag and the percentage in tenths
ScenarioName(tag, rate) ==
    [tag |-> tag, tenths |-> RoundHalfEven(RMul(rate, RInt(1000)))]

\* the same dict built without the two range tests
RateVariations_unclamped(target, step, tags) ==
    LET two == RMul(RInt(2), step)
        item(tag, rate) == << [name |-> ScenarioName(tag, rate), rate |-> rate] >>
    IN item(tags[1], RSub(target, two))
       \o item(tags[2], RSub(target, step))
       \o item("Target", target)
       \o item(tags[3], RAdd(target, step))
       \o item(tags[4], RAdd(target, two))

\* the dict of labelled rates built around a target: two below when not
\* negative, the target, two above when not over 1.0; in insertion order
RateVariations(target, step, tags) ==
    LET two   == RMul(RInt(2), step)
        minus2 == RSub(target, two)
        minus1 == RSub(target, step)
        plus1  == RAdd(target, step)
        plus2  == RAdd(target, two)
        item(tag, rate) == << [name |-> ScenarioName(tag, rate), rate |-> rate] >>
    IN (IF RLe(Zero, minus2) THEN item(tags[1], minus2) ELSE << >>)
       \o (IF RLe(Zero, minus1) THEN item(tags[2], minus1) ELSE << >>)
       \o item("Target", target)
       \o (IF RLe(plus1, RInt(1)) THEN item(tags[3], plus1) ELSE << >>)
       \o (IF RLe(plus2, RInt(1)) THEN item(tags[4], plus2) ELSE << >>)

response_rate_variations ==
    RateVariations(target_response_rate, response_step,
                   << "-20pp", "-10pp", "+10pp", "+20pp" >>)

qualification_rate_variations ==
    RateVariations(target_qualification_rate, qualification_step,
                   << "-20pp", "-10pp", "+10pp", "+20pp" >>)

booking_rate_variations ==
    RateVariations(target_booking_rate, booking_step,
                   << "-30pp", "-15pp", "+15pp", "+30pp" >>)

sweep_vars == << qi, bj, cost_row, cpa_row, meetings_row, cost_matrix,
                 cpa_matrix, meetings_matrix, target_results,
                 target_qual_idx, target_book_idx >>

\* if target_total_leads > 0: target_results = run_simulation(...)
\* else: st.info(...)
RunTarget ==
    /\ pc = "start"
    /\ IF RGt(target_total_leads, Zero)
       THEN LET out == run_simulation(target_total_leads, dicts[rates],
                                      pricing_tables, minimum_billing)
            IN /\ last_call' = [fn |-> "run_simulation", site |-> "target",
                                quantity |-> target_total_leads,
                                table |-> "none", rates |-> dicts[rates],
                                minimum_billing |-> minimum_billing,
                                raised |-> out.raised]
               /\ pricing_tables' = out.tables
               /\ IF out.raised = "none"
                  THEN /\ target_results' = out.result
                       /\ pc' = "tab_resp"
                  ELSE /\ target_results' = target_results
                       /\ pc' = "raised"
       ELSE /\ pc' = "done"
            /\ UNCHANGED << last_call, pricing_tables, target_results >>
    /\ UNCHANGED << input_vars, dicts, scenario_rates, temp_rates, eval_result,
                    sim_result, idx, vi, costs, qi, bj, traces, cost_row,
                    cpa_row, meetings_row, cost_matrix, cpa_matrix,
                    meetings_matrix, target_qual_idx, target_book_idx >>

\* one pass of `for volume in lead_volumes` in the tab `tab`, within the pass
\* idx of `for idx, (scenario_name, rate) in enumerate(variations.items())`.
\* Before the first volume: costs = [], scenario_rates = rates.copy(),
\* scenario_rates[key] = rate.  After the last volume: add_trace, next scenario.
SweepVolume(tab, key, variations, next_pc) ==
    /\ pc = tab
    /\ idx <= Len(variations)
    /\ LET scenario == variations[idx]
           first    == vi = 1
           copied   == IF first THEN DictCopy(dicts, rates, ScenarioRef)
                       ELSE [heap |-> dicts, ref |-> scenario_rates]
           heap     == IF first
                       THEN DictSet(copied.heap, copied.ref, key, scenario.rate)
                       ELSE dicts
           out      == run_simulation(lead_volumes[vi], heap[copied.ref],
                                      pricing_tables, minimum_billing)
           new_costs == Append(IF first THEN << >> ELSE costs,
                               out.result.total_cost)
           last     == vi = Len(lead_volumes)
       IN /\ dicts' = heap
          /\ scenario_rates' = copied.ref
          /\ pricing_tables' = out.tables
          /\ last_call' = [fn |-> "run_simulation", site |-> key,
                           quantity |-> lead_volumes[vi], table |-> "none",
                           rates |-> heap[copied.ref],
                           minimum_billing |-> minimum_billing,
                           raised |-> out.raised]
          /\ IF out.raised # "none"
             THEN pc' = "raised" /\ UNCHANGED << sim_result, idx, vi, costs, traces >>
             ELSE /\ sim_result' = out.result
                  /\ costs' = new_costs
                  /\ vi' = IF last THEN 1 ELSE vi + 1
                  /\ traces' = IF last
                               THEN [traces EXCEPT ![key] =
                                       Append(@, [name  |-> scenario.name,
                                                  rate  |-> scenario.rate,
                                                  costs |-> new_costs])]
                               ELSE traces
                  /\ idx' = IF ~last THEN idx
                            ELSE IF idx = Len(variations) THEN 1 ELSE idx + 1
                  /\ pc' = IF last /\ idx = Len(variations) THEN next_pc ELSE pc
    /\ UNCHANGED << input_vars, temp_rates, eval_result, sweep_vars >>

SweepResponse ==
    SweepVolume("tab_resp", "response", response_rate_variations, "tab_qual")

SweepQualification ==
    SweepVolume("tab_qual", "qualification", qualification_rate_variations,
                  "tab_book")

SweepBooking ==
    SweepVolume("tab_book", "booking", booking_rate_variations, "heatmap")

\* qual_rates_heatmap = [i / 100.0 for i in range(0, 36, 5)]
qual_rates_heatmap == [i \in 1..8 |-> R((i - 1) * 5, 100)]

\* booking_rates_heatmap = [i / 100.0 for i in range(0, 51, 5)]
booking_rates_heatmap == [i \in 1..11 |-> R((i - 1) * 5, 100)]

\* cpa_row.append(sim_result["cpa"] if sim_result["cpa"] > 0 else 0)
cpa_cell(cpa) == IF RGt(cpa, Zero) THEN cpa ELSE Zero

\* temp_rates["qualification"] = qual_rate; temp_rates["booking"] = book_rate,
\* with the rates swapped
cell_rates_swapped(heap, ref, qual_rate, book_rate) ==
    DictSet(DictSet(heap, ref, "qualification", book_rate),
            ref, "booking", qual_rate)

\* temp_rates["qualification"] = qual_rate; temp_rates["booking"] = book_rate
cell_rates(heap, ref, qual_rate, book_rate) ==
    DictSet(DictSet(heap, ref, "qualification", qual_rate),
            ref, "booking", book_rate)

\* one pass of the inner loop `for book_rate in booking_rates_heatmap`, and
\* after the last column the three appends that close the row
HeatmapCell ==
    /\ pc = "heatmap"
    /\ LET qual_rate == qual_rates_heatmap[qi]
           book_rate == booking_rates_heatmap[bj]
           copied    == DictCopy(dicts, rates, TempRef)
           heap      == cell_rates(copied.heap, copied.ref, qual_rate, book_rate)
           out       == run_simulation(target_total_leads, heap[copied.ref],
                                       pricing_tables, minimum_billing)
           row_done  == bj = Len(booking_rates_heatmap)
           grid_done == row_done /\ qi = Len(qual_rates_heatmap)
           new_cost     == Append(cost_row, out.result.total_cost)
           new_cpa      == Append(cpa_row, cpa_cell(out.result.cpa))
           new_meetings == Append(meetings_row, out.result.num_booked)
       IN /\ dicts' = heap
          /\ temp_rates' = copied.ref
          /\ pricing_tables' = out.tables
          /\ last_call' = [fn |-> "run_simulation", site |-> "heatmap",
                           quantity |-> target_total_leads, table |-> "none",
                           rates |-> heap[copied.ref],
                           minimum_billing |-> minimum_billing,
                           raised |-> out.raised]
          /\ IF out.raised # "none"
             THEN /\ pc' = "raised"
                  /\ UNCHANGED << sim_result, qi, bj, cost_row, cpa_row,
                                  meetings_row, cost_matrix, cpa_matrix,
                                  meetings_matrix >>
             ELSE /\ sim_result' = out.result
                  /\ cost_row' = IF row_done THEN << >> ELSE new_cost
                  /\ cpa_row' = IF row_done THEN << >> ELSE new_cpa
                  /\ meetings_row' = IF row_done THEN << >> ELSE new_meetings
                  /\ cost_matrix' = IF row_done THEN Append(cost_matrix, new_cost)
                                    ELSE cost_matrix
                  /\ cpa_matrix' = IF row_done THEN Append(cpa_matrix, new_cpa)
                                   ELSE cpa_matrix
                  /\ meetings_matrix' = IF row_done
                                        THEN Append(meetings_matrix, new_meetings)
                                        ELSE meetings_matrix
                  /\ bj' = IF row_done THEN 1 ELSE bj + 1
                  /\ qi' = IF row_done /\ ~grid_done THEN qi + 1 ELSE qi
                  /\ pc' = IF grid_done THEN "tab1" ELSE pc
    /\ UNCHANGED << input_vars, scenario_rates, eval_result, idx, vi, costs,
                    traces, target_results, target_qual_idx, target_book_idx >>

\* abs(axis[i] - target), i counted from 0 as in the code
axis_distance(axis, i, target) ==
    LET diff == RSub(axis[i + 1], target)
    IN [n |-> Abs(diff.n), d |-> diff.d]

\* whether min replaces its current best by a later candidate, on a tie too
min_replaces_on_tie(candidate_key, best_key) == RLe(candidate_key, best_key)

\* whether min replaces its current best by a later candidate: only when
\* the candidate's key is strictly smaller
min_replaces(candidate_key, best_key) == RLt(candidate_key, best_key)

\* the builtin min over range(i, len(axis)) with the key above, `best` being
\* the best of range(0, i)
RECURSIVE min_from(_, _, _, _)
min_from(axis, target, best, i) ==
    IF i >= Len(axis) THEN best
    ELSE IF min_replaces(axis_distance(axis, i, target),
                         axis_distance(axis, best, target))
         THEN min_from(axis, target, i, i + 1)
         ELSE min_from(axis, target, best, i + 1)

\* min(range(len(axis)), key=lambda i: abs(axis[i] - target))
nearest_index(axis, target) == min_from(axis, target, 0, 1)

\* the target marker of the heatmap tab: its row and column
TargetOverlay ==
    /\ pc = "tab1"
    /\ target_qual_idx' = nearest_index(qual_rates_heatmap,
                                        target_qualification_rate)
    /\ target_book_idx' = nearest_index(booking_rates_heatmap,
                                        target_booking_rate)
    /\ pc' = "done"
    /\ UNCHANGED << input_vars, dicts, scenario_rates, temp_rates,
                    pricing_tables, last_call, eval_result, sim_result,
                    target_results, idx, vi, costs, qi, bj, traces, cost_row,
                    cpa_row, meetings_row, cost_matrix, cpa_matrix,
                    meetings_matrix >>

Next ==
    \/ RunTarget
    \/ SweepResponse
    \/ SweepQualification
    \/ SweepBooking
    \/ HeatmapCell
    \/ TargetOverlay

Spec == Init /\ [][Next]_vars

\* the page script run over more slider positions: rates on and next to the
\* bounds of the variation tests (0, one step, two steps, 1 less as much),
\* and on, between, midway between and above the heatmap axis values
TargetChoices ==
    { << R(3, 20), R(1, 4), R(33, 100) >>,
      << Zero, R(1, 40), R(19, 40) >>,
      << R(1, 20), R(2, 5), R(7, 10) >>,
      << R(1, 10), Zero, Zero >>,
      << R(1, 5), R(1, 10), R(3, 20) >>,
      << R(1, 2), R(1, 5), R(3, 10) >>,
      << R(4, 5), R(4, 5), R(17, 20) >>,
      << R(9, 10), R(9, 10), R(1, 2) >>,
      << R(19, 20), RInt(1), RInt(1) >>,
      << RInt(1), R(7, 40), R(1, 10) >>,
      << R(17, 20), R(33, 100), R(9, 10) >> }

InitTargets ==
    \E target \in TargetChoices :
        InitWith(RInt(2500), target[1], target[2], target[3], RInt(1500),
                 df_leads)

SpecTargets == InitTargets /\ [][Next]_vars

----------------------------------------------------------------------------
(* Claims                                                                  *)

\* the rows of the table the last calculate_tiered_cost call was given (the
\* call changes no cell value)
EvalRows == pricing_tables.leads.rows

EvalCalled == last_call.fn = "calculate_tiered_cost"

SimCalled == last_call.fn = "run_simulation"

\* C1: every run_simulation call returns total_cost = max(calculated_cost,
\* minimum_billing), calculated_cost being the sum of the four stage costs:
\* total_cost is one of the two and not below either, the floor adjustment
\* total_cost - calculated_cost is positive exactly when the minimum exceeds
\* the calculated cost, and calculated 1000 with minimum 1500 gives 1500 and
\* an adjustment of 500.
C1_TotalCostIsMax ==
    SimCalled =>
        LET r       == sim_result
            minimum == last_call.minimum_billing
            adjust  == RSub(r.total_cost, r.calculated_cost)
        IN /\ r.calculated_cost =
                  RAdd(r.cost_no_reply,
                       RAdd(r.cost_replies, RAdd(r.cost_qualified, r.cost_booked)))
           /\ r.total_cost \in {r.calculated_cost, minimum}
           /\ RLe(minimum, r.total_cost)
           /\ RLe(r.calculated_cost, r.total_cost)
           /\ (RGt(adjust, Zero) <=> RGt(minimum, r.calculated_cost))
           /\ (r.calculated_cost = RInt(1000) /\ minimum = RInt(1500)
                 => r.total_cost = RInt(1500) /\ adjust = RInt(500))

C1_Witness ==
    /\ SimCalled
    /\ sim_result.calculated_cost = RInt(1000)
    /\ last_call.minimum_billing = RInt(1500)
    /\ sim_result.total_cost = RInt(1500)

\* what one tier adds for a quantity, as the claim words it
TierShare(quantity, row) ==
    IF RLt(row.Minimo, quantity)
    THEN RMul(RSub(RMin(quantity, row.Maximo), row.Minimo), row.Valor)
    ELSE Zero

\* the sum of the shares of rows[1..i], taken from the last row down
RECURSIVE ShareSum(_, _, _)
ShareSum(rows, quantity, i) ==
    IF i = 0 THEN Zero
    ELSE RAdd(TierShare(quantity, rows[i]), ShareSum(rows, quantity, i - 1))

\* the same rows in every order
Reorderings(rows) ==
    { [i \in DOMAIN rows |-> rows[p[i]]] : p \in Permutations(DOMAIN rows) }

ScenarioA == << Tier(RInt(0), RInt(500), RInt(5)),
                Tier(RInt(500), RInt(1500), R(19, 5)) >>

\* C2: for a quantity > 0 calculate_tiered_cost returns the sum, over every
\* tier whose Minimo is strictly below the quantity, of
\* (min(quantity, Maximo) - Minimo) * Valor, whatever the order of the rows
\* and whether or not tiers overlap; tiers [0,500) at 5.00 and [500,1500) at
\* 3.80 with quantity 600 give 2880.
C2_SumOverTiers ==
    EvalCalled /\ RGt(last_call.quantity, Zero) =>
        /\ eval_result = ShareSum(EvalRows, last_call.quantity, Len(EvalRows))
        /\ \A rows \in Reorderings(EvalRows) :
              calculate_tiered_cost(last_call.quantity, TierFrame(rows)).cost
                  = eval_result
        /\ (EvalRows = ScenarioA /\ last_call.quantity = RInt(600)
              => eval_result = RInt(2880))

C2_Witness ==
    /\ EvalCalled
    /\ EvalRows = ScenarioA
    /\ last_call.quantity = RInt(600)
    /\ eval_result = RInt(2880)

\* the tier with the smallest Minimo, as the evaluation orders them
FirstTier == sort_values(pricing_tables.leads).rows[1]

\* every tier has Minimo < Maximo and a price that is not negative
ValidTiers(rows) ==
    \A i \in DOMAIN rows :
        RLt(rows[i].Minimo, rows[i].Maximo) /\ RLe(Zero, rows[i].Valor)

\* C3 as stated, on the inputs the contract admits (tiers with Minimo <
\* Maximo and non-negative prices, quantity >= 0): for every table and every
\* quantity not above the first tier's Maximo the cost is
\* quantity * first tier's Valor.
C3_FirstTierAsStated ==
    /\ EvalCalled
    /\ EvalRows # << >>
    /\ ValidTiers(EvalRows)
    /\ RLe(Zero, last_call.quantity)
    /\ RLe(last_call.quantity, FirstTier.Maximo)
    => eval_result = RMul(last_call.quantity, FirstTier.Valor)

\* the number of rows whose Minimo is below the quantity
StartedTiers(quantity) ==
    Cardinality({ i \in DOMAIN EvalRows : RLt(EvalRows[i].Minimo, quantity) })

\* C3 amended: when the first tier starts at 0 and no other tier starts below
\* the quantity, every quantity from 0 to the first tier's Maximo costs
\* quantity * first tier's Valor.
C3_FirstTier ==
    /\ EvalCalled
    /\ EvalRows # << >>
    /\ FirstTier.Minimo = Zero
    /\ RLe(Zero, last_call.quantity)
    /\ RLe(last_call.quantity, FirstTier.Maximo)
    /\ StartedTiers(last_call.quantity) <= 1
    => eval_result = RMul(last_call.quantity, FirstTier.Valor)

C3_Witness ==
    /\ EvalCalled
    /\ EvalRows = << Tier(RInt(500), RInt(1500), R(19, 5)),
                     Tier(RInt(0), RInt(500), RInt(5)) >>
    /\ last_call.quantity = RInt(500)
    /\ eval_result = RInt(2500)

\* C4: on a table whose tiers have Minimo < Maximo and non-negative prices
\* (adjacent or not, overlapping or not), the cost of a quantity q1 >= 0 is
\* at most the cost of every larger quantity q2.
C4_Monotone ==
    EvalCalled /\ ValidTiers(EvalRows) /\ RLe(Zero, last_call.quantity) =>
        \A q2 \in Quantities :
            RLt(last_call.quantity, q2) =>
                RLe(eval_result,
                    calculate_tiered_cost(q2, pricing_tables.leads).cost)

\* a cost that grows across a tier boundary of an overlapping table
C4_Witness ==
    /\ EvalCalled
    /\ EvalRows = << Tier(RInt(0), RInt(1500), RInt(5)),
                     Tier(RInt(500), RInt(1500), R(19, 5)) >>
    /\ last_call.quantity = RInt(500)
    /\ eval_result = RInt(2500)
    /\ calculate_tiered_cost(RInt(600), pricing_tables.leads).cost = RInt(3380)

\* C5: a negative quantity given to calculate_tiered_cost (with a table of
\* valid tiers) is rejected with InvalidInput and no cost is returned for it.
C5_NegativeRejected ==
    EvalCalled /\ ValidTiers(EvalRows) /\ RLt(last_call.quantity, Zero)
        => last_call.raised = "InvalidInput"

\* a tier with Minimo >= Maximo or a negative price
InvalidTiers(rows) == ~ValidTiers(rows)

\* C6: a table holding a tier with Minimo >= Maximo or a negative Valor is
\* rejected with InvalidTable before any cost is computed from it (stated
\* for the quantities > 0, for which the tiers are read).
C6_InvalidTableRejected ==
    EvalCalled /\ InvalidTiers(EvalRows) /\ RGt(last_call.quantity, Zero)
        => last_call.raised = "InvalidTable"

\* C7: run_simulation never ends with a division by zero; cpl is
\* total_cost / total_leads when total_leads > 0 and 0 when total_leads = 0;
\* cpa is total_cost / num_booked when num_booked > 0 and 0 when
\* num_booked = 0, also when the minimum billing makes total_cost positive.
C7_GuardedDivision ==
    SimCalled =>
        /\ last_call.raised = "none"
        /\ LET r == sim_result
           IN /\ (RGt(r.total_leads, Zero)
                    => RMul(r.cpl, r.total_leads) = r.total_cost)
              /\ (r.total_leads = Zero => r.cpl = Zero)
              /\ (RGt(r.num_booked, Zero)
                    => RMul(r.cpa, r.num_booked) = r.total_cost)
              /\ (r.num_booked = Zero => r.cpa = Zero)

\* nothing booked, nothing sent, and a total cost of 1500 from the floor
C7_Witness ==
    /\ SimCalled
    /\ last_call.raised = "none"
    /\ sim_result.total_leads = Zero
    /\ sim_result.num_booked = Zero
    /\ sim_result.total_cost = RInt(1500)
    /\ sim_result.cpl = Zero
    /\ sim_result.cpa = Zero

\* C9: run_simulation (and calculate_tiered_cost within it) leaves its inputs
\* as they were: after a call with total_leads >= 0 the caller's rates, price
\* tables (row order, cell values, column types) and minimum billing are
\* what they were before it.
C9_NoSideEffects ==
    [][RLe(Zero, last_call'.quantity) =>
          /\ pricing_tables' = pricing_tables
          /\ dicts' = dicts
          /\ minimum_billing' = minimum_billing]_vars

\* the dict the last run_simulation call of the page returned
PageResult == IF last_call.site = "target" THEN target_results ELSE sim_result

\* the cells of a heatmap matrix built so far: closed rows, then the open row
Cells(matrix, row) == IF row = << >> THEN matrix ELSE Append(matrix, row)

\* C8: whatever the lead volume, response rate, tables and minimum billing,
\* a qualification rate of 0 or a booking rate of 0 makes run_simulation
\* return num_booked = 0, cost_booked = 0 and cpa = 0; so every heatmap cell
\* of the qualification = 0 row and of the booking = 0 column holds CPA 0
\* and 0 meetings.
C8_ZeroRateZeroBooked ==
    /\ SimCalled /\ (last_call.rates.qualification = Zero
                       \/ last_call.rates.booking = Zero)
         => /\ last_call.raised = "none"
            /\ PageResult.num_booked = Zero
            /\ PageResult.cost_booked = Zero
            /\ PageResult.cpa = Zero
    /\ \A i \in DOMAIN Cells(cpa_matrix, cpa_row) :
         \A j \in DOMAIN Cells(cpa_matrix, cpa_row)[i] :
            qual_rates_heatmap[i] = Zero \/ booking_rates_heatmap[j] = Zero
              => /\ Cells(cpa_matrix, cpa_row)[i][j] = Zero
                 /\ Cells(meetings_matrix, meetings_row)[i][j] = Zero

\* the heatmap is complete under a floor of 1500: its first row and first
\* column hold CPA 0 although every cell costs at least 1500, and the other
\* cells hold a CPA
C8_Witness ==
    /\ pc = "done"
    /\ Len(cpa_matrix) = Len(qual_rates_heatmap)
    /\ minimum_billing = RInt(1500)
    /\ cpa_matrix[1][2] = Zero
    /\ cpa_matrix[2][1] = Zero
    /\ RLe(RInt(1500), cost_matrix[1][1])
    /\ RGt(cpa_matrix[2][2], Zero)
    /\ RGt(meetings_matrix[2][2], Zero)

TargetRates ==
    [response      |-> target_response_rate,
     qualification |-> target_qualification_rate,
     booking       |-> target_booking_rate]

\* C10: no sweep changes the base rates: each series and each heatmap cell
\* works on its own copy and overrides only the swept rate(s) there, so the
\* base rates stay the target rates throughout and every simulation of a
\* sweep sees the rates it does not sweep at their targets.
C10_BaseRatesKept ==
    /\ dicts[rates] = TargetRates
    /\ scenario_rates # rates
    /\ temp_rates # rates
    /\ SimCalled /\ last_call.site = "target" => last_call.rates = TargetRates
    /\ SimCalled /\ last_call.site = "response"
         => \E r \in { v.rate : v \in { response_rate_variations[k] :
                                          k \in DOMAIN response_rate_variations } } :
              last_call.rates = [TargetRates EXCEPT !.response = r]
    /\ SimCalled /\ last_call.site = "qualification"
         => \E r \in { v.rate : v \in { qualification_rate_variations[k] :
                                          k \in DOMAIN qualification_rate_variations } } :
              last_call.rates = [TargetRates EXCEPT !.qualification = r]
    /\ SimCalled /\ last_call.site = "booking"
         => \E r \in { v.rate : v \in { booking_rate_variations[k] :
                                          k \in DOMAIN booking_rate_variations } } :
              last_call.rates = [TargetRates EXCEPT !.booking = r]
    /\ SimCalled /\ last_call.site = "heatmap"
         => \E i \in DOMAIN qual_rates_heatmap, j \in DOMAIN booking_rates_heatmap :
              last_call.rates = [TargetRates EXCEPT
                                   !.qualification = qual_rates_heatmap[i],
                                   !.booking = booking_rates_heatmap[j]]

\* all four sweeps are over, both copies differ from the base rates in a
\* swept rate, and the base rates are the targets
C10_Witness ==
    /\ pc = "done"
    /\ Len(traces.response) >= 3
    /\ Len(traces.qualification) >= 3
    /\ Len(traces.booking) >= 3
    /\ dicts[scenario_rates].booking # target_booking_rate
    /\ dicts[temp_rates].qualification # target_qualification_rate
    /\ dicts[rates] = TargetRates

SweepKeys == {"response", "qualification", "booking"}

StepOf(key) ==
    CASE key = "response" -> response_step
      [] key = "qualification" -> qualification_step
      [] key = "booking" -> booking_step

\* the tab of the rate `key` has drawn all its series
SweepOver(key) ==
    /\ RGt(target_total_leads, Zero)
    /\ pc \in CASE key = "response" -> {"tab_qual", "tab_book", "heatmap", "tab1", "done"}
               [] key = "qualification" -> {"tab_book", "heatmap", "tab1", "done"}
               [] key = "booking" -> {"heatmap", "tab1", "done"}

InUnit(x) == RLe(Zero, x) /\ RLe(x, RInt(1))

\* the values t + k * s, k = -2 .. 2, that lie in [0, 1], lowest first
ExpectedRates(t, s) ==
    SelectSeq([k \in 1..5 |-> RAdd(t, RMul(RInt(k - 3), s))], InUnit)

\* C11: in each volume-sweep tab (step 0.10 for response and qualification,
\* 0.15 for booking) the series are drawn for exactly the rates t + k * s,
\* k in -2..2, that lie in [0, 1], in ascending order of rate; the ones out
\* of range are left out and nothing is raised; the series of the target
\* itself is always there; the labels differ pairwise; and no simulation of
\* a sweep is given a swept rate outside [0, 1].
C11_RateVariations ==
    \A key \in SweepKeys :
        LET t        == TargetRates[key]
            series   == traces[key]
            expected == ExpectedRates(t, StepOf(key))
        IN /\ Len(series) <= Len(expected)
           /\ \A i \in DOMAIN series : series[i].rate = expected[i]
           /\ \A i, j \in DOMAIN series :
                 /\ i < j => RLt(series[i].rate, series[j].rate)
                 /\ i # j => series[i].name # series[j].name
           /\ SweepOver(key) =>
                 /\ Len(series) = Len(expected)
                 /\ \E i \in DOMAIN series :
                       series[i].name.tag = "Target" /\ series[i].rate = t
           /\ SimCalled /\ last_call.site = key =>
                 /\ InUnit(last_call.rates[key])
                 /\ last_call.raised = "none"
           /\ pc # "raised"

\* all three tabs are drawn for a target whose lower variations are all out
\* of range in one tab (response 5%: only +10pp and +20pp), whose upper ones
\* are in another (booking 70%: +15pp = 85%, +30pp = 100% kept on the bound)
C11_Witness ==
    /\ pc = "done"
    /\ TargetRates = [response |-> R(1, 20), qualification |-> R(2, 5),
                      booking |-> R(7, 10)]
    /\ Len(traces.response) = 3
    /\ traces.response[1].name.tag = "Target"
    /\ Len(traces.qualification) = 5
    /\ Len(traces.booking) = 5
    /\ traces.booking[5].rate = RInt(1)
    /\ traces.booking[1].rate = R(2, 5)

\* the rates of the heatmap cell in row i, column j (counted from 1)
GridRates(i, j) ==
    [TargetRates EXCEPT !.qualification = qual_rates_heatmap[i],
                        !.booking = booking_rates_heatmap[j]]

GridResult(i, j) ==
    run_simulation(target_total_leads, GridRates(i, j), pricing_tables,
                   minimum_billing).result

\* cost per booked meeting as the CPA matrix holds it
GridCpa(result) ==
    IF RGt(result.num_booked, Zero)
    THEN RDiv(result.total_cost, result.num_booked) ELSE Zero

\* C12: the heatmap grid has the qualification axis 0% .. 35% and the booking
\* axis 0% .. 50%, both in steps of 5% and ascending; the simulator runs once
\* per (qualification, booking) pair at the target lead volume, row by row
\* and column by column, each run filling one cell of each of the three
\* matrices; the finished matrices all have len(qualification axis) rows of
\* len(booking axis) entries, and entry [i][j] holds total cost, CPA (0
\* without bookings) and booked count of the simulation with
\* qualification = axis1[i] and booking = axis2[j].
C12_GridSweep ==
    LET cost     == Cells(cost_matrix, cost_row)
        cpa      == Cells(cpa_matrix, cpa_row)
        meetings == Cells(meetings_matrix, meetings_row)
        rows     == Len(qual_rates_heatmap)
        columns  == Len(booking_rates_heatmap)
    IN /\ rows = 8 /\ columns = 11
       /\ \A i \in 1..rows : qual_rates_heatmap[i] = R(5 * (i - 1), 100)
       /\ \A j \in 1..columns : booking_rates_heatmap[j] = R(5 * (j - 1), 100)
       /\ Len(cpa) = Len(cost) /\ Len(meetings) = Len(cost)
       /\ \A i \in DOMAIN cost :
             /\ Len(cpa[i]) = Len(cost[i]) /\ Len(meetings[i]) = Len(cost[i])
             /\ i <= Len(cost_matrix) => Len(cost[i]) = columns
       /\ pc = "heatmap" => Len(cost_matrix) = qi - 1 /\ Len(cost_row) = bj - 1
       /\ SimCalled /\ last_call.site = "heatmap" /\ last_call.raised = "none" =>
             LET i == Len(cost)
                 j == Len(cost[i])
             IN /\ last_call.rates = GridRates(i, j)
                /\ last_call.quantity = target_total_leads
                /\ cost[i][j] = sim_result.total_cost
                /\ cpa[i][j] = GridCpa(sim_result)
                /\ meetings[i][j] = sim_result.num_booked
                /\ meetings[i][j] =
                       RMul(RMul(target_total_leads, target_response_rate),
                            RMul(qual_rates_heatmap[i], booking_rates_heatmap[j]))
       /\ pc \in {"tab1", "done"} /\ RGt(target_total_leads, Zero) =>
             /\ Len(cost) = rows
             /\ \A i \in 1..rows : \A j \in 1..columns :
                   LET result == GridResult(i, j)
                   IN /\ cost[i][j] = result.total_cost
                      /\ cpa[i][j] = GridCpa(result)
                      /\ meetings[i][j] = result.num_booked
       /\ pc # "raised"

\* the grid is complete for 2500 leads at a response rate of 15%: 8 rows of
\* 11 cells, the cell of qualification 25% and booking 30% holding 28.125
\* meetings, and costs that differ between the first and the last cell
C12_Witness ==
    /\ pc = "done"
    /\ target_response_rate = R(3, 20)
    /\ Len(cost_matrix) = 8
    /\ Len(cpa_matrix[8]) = 11
    /\ meetings_matrix[6][7] = R(225, 8)
    /\ RGt(cpa_matrix[6][7], Zero)
    /\ RLt(cost_matrix[1][1], cost_matrix[8][11])

\* the call of last_call made once more, on the table objects as they are now
CallAgain ==
    run_simulation(last_call.quantity, last_call.rates, pricing_tables,
                   last_call.minimum_billing)

\* C13: run_simulation called a second time with the same lead volume, rates
\* and minimum billing and with the same price-table objects (as the first
\* call left them) ends the same way and returns a result record equal to the
\* first in every field, and leaves the tables as it found them: nothing the
\* first call left behind changes the second.
C13_Idempotent ==
    SimCalled =>
        /\ CallAgain.raised = last_call.raised
        /\ last_call.raised = "none" => CallAgain.result = sim_result
        /\ CallAgain.tables = pricing_tables

\* a first call for 2500 leads has returned costs at every stage and has left
\* the leads table with float64 columns, which the second call is given
C13_Witness ==
    /\ SimCalled
    /\ last_call.quantity = RInt(2500)
    /\ last_call.raised = "none"
    /\ RGt(sim_result.cost_replies, Zero)
    /\ RGt(sim_result.cost_booked, Zero)
    /\ pricing_tables.leads.dtypes.Minimo = "float64"
    /\ df_leads.dtypes.Minimo = "int64"
    /\ pricing_tables.leads.rows = df_leads.rows

\* C14: in every result of run_simulation the funnel counts are the plain
\* products replies = total_leads * response, no_replies = total_leads -
\* replies, qualified = replies * qualification, booked = qualified * booking,
\* with no rounding; so replies + no_replies = total_leads, and 2500 leads at
\* rates 0.15, 0.25, 0.33 give replies 375, qualified 93.75, booked 30.9375.
C14_FunnelChain ==
    SimCalled /\ last_call.raised = "none" =>
        LET r  == sim_result
            rt == last_call.rates
        IN /\ r.total_leads = last_call.quantity
           /\ r.num_replies = RMul(r.total_leads, rt.response)
           /\ r.num_no_replies = RSub(r.total_leads, r.num_replies)
           /\ r.num_qualified = RMul(r.num_replies, rt.qualification)
           /\ r.num_booked = RMul(r.num_qualified, rt.booking)
           /\ RAdd(r.num_replies, r.num_no_replies) = r.total_leads
           /\ ( /\ r.total_leads = RInt(2500)
                /\ rt = [response |-> R(15, 100), qualification |-> R(25, 100),
                         booking |-> R(33, 100)] )
                => /\ r.num_replies = RInt(375)
                   /\ r.num_qualified = R(9375, 100)
                   /\ r.num_booked = R(309375, 10000)

\* scenario B has been simulated: 2125 leads without reply and a booked
\* count that is no whole number
C14_Witness ==
    /\ SimCalled
    /\ last_call.quantity = RInt(2500)
    /\ last_call.rates = [response |-> R(3, 20), qualification |-> R(1, 4),
                          booking |-> R(33, 100)]
    /\ sim_result.num_no_replies = RInt(2125)
    /\ sim_result.num_booked = R(495, 16)
    /\ sim_result.num_booked.d # 1

\* |axis[i] - target| for the index i counted from 0
Distance(axis, i, target) ==
    IF RLt(axis[i + 1], target) THEN RSub(target, axis[i + 1])
    ELSE RSub(axis[i + 1], target)

\* index is the index of the axis value nearest to target, the lowest such
NearestLowest(axis, index, target) ==
    /\ index \in 0..(Len(axis) - 1)
    /\ \A i \in 0..(Len(axis) - 1) :
          /\ RLe(Distance(axis, index, target), Distance(axis, i, target))
          /\ i < index => RLt(Distance(axis, index, target), Distance(axis, i, target))
    /\ RGt(target, axis[Len(axis)]) => index = Len(axis) - 1

RECURSIVE FullTiersSum(_, _, _)
FullTiersSum(rows, quantity, i) ==
    IF i = 0 THEN Zero
    ELSE RAdd(IF RLe(rows[i].Maximo, quantity)
              THEN RMul(RSub(rows[i].Maximo, rows[i].Minimo), rows[i].Valor)
              ELSE Zero,
              FullTiersSum(rows, quantity, i - 1))

\* C16: for a table whose tiers all have Minimo < Maximo, a quantity at or
\* above the largest Maximo costs the sum over all tiers of
\* (Maximo - Minimo) * Valor and nothing more; and a quantity that lies in no
\* tier (in a gap between tiers that do not touch, or above them all) costs
\* the full width of the tiers below it only: the part of the quantity
\* that no tier covers adds nothing.
C16_Saturation ==
    EvalCalled /\ (\A i \in DOMAIN EvalRows :
                     RLt(EvalRows[i].Minimo, EvalRows[i].Maximo)) =>
        LET q == last_call.quantity
        IN /\ (\A i \in DOMAIN EvalRows : RLe(EvalRows[i].Maximo, q))
                => /\ last_call.raised = "none"
                   /\ eval_result = FullTiersSum(EvalRows, q, Len(EvalRows))
           /\ (\A i \in DOMAIN EvalRows :
                   RLe(q, EvalRows[i].Minimo) \/ RLe(EvalRows[i].Maximo, q))
                => /\ last_call.raised = "none"
                   /\ eval_result = FullTiersSum(EvalRows, q, Len(EvalRows))

\* 3500 items against the tiers [0, 500) at 5 and [1500, 3000) at 3.8, which
\* leave 500..1500 uncovered: 500 * 5 + 1500 * 3.8 = 8200
C16_Witness ==
    /\ EvalCalled
    /\ last_call.quantity = RInt(3500)
    /\ EvalRows = << Tier(RInt(0), RInt(500), RInt(5)),
                     Tier(RInt(1500), RInt(3000), R(19, 5)) >>
    /\ eval_result = RInt(8200)

\* costs starts at the minimum billing and never goes down
StartsAtMinimumAndRises(series_costs) ==
    /\ series_costs # << >> => series_costs[1] = minimum_billing
    /\ \A i \in DOMAIN series_costs :
          i > 1 => RLe(series_costs[i - 1], series_costs[i])

\* what the claim asks of the inputs of a sweep
SweepInputsValid ==
    /\ RLe(Zero, pricing_tables.no_reply.rows[1].Valor)
    /\ \A name \in {"leads", "qualified", "booked"} :
          ValidTiers(pricing_tables[name].rows)
    /\ \A key \in SweepKeys : InUnit(TargetRates[key])
    /\ RLe(Zero, minimum_billing)

\* C17: with price tables whose tiers have Minimo < Maximo and prices that
\* are not negative, a no-reply price that is not negative and target rates
\* in [0, 1], every series of every volume sweep has one total_cost per lead
\* volume 0, 100, ..., 3500, the total_cost never decreases from one volume
\* to the next, and the first point (volume 0) is exactly minimum_billing.
C17_SweepMonotone ==
    SweepInputsValid =>
        /\ \A i \in DOMAIN lead_volumes :
              lead_volumes[i] = RInt(100 * (i - 1))
        /\ \A key \in SweepKeys : \A k \in DOMAIN traces[key] :
              /\ Len(traces[key][k].costs) = Len(lead_volumes)
              /\ StartsAtMinimumAndRises(traces[key][k].costs)
        /\ StartsAtMinimumAndRises(costs)
        /\ pc # "raised"

\* the three tabs are drawn under a minimum billing of 1500: the target
\* series of the response tab starts at 1500, stays there at 100 leads,
\* and ends higher at 3500 leads
C17_Witness ==
    /\ pc = "done"
    /\ minimum_billing = RInt(1500)
    /\ target_response_rate = R(3, 20)
    /\ Len(traces.response) = 4
    /\ traces.response[2].name.tag = "Target"
    /\ Len(traces.response[2].costs) = 36
    /\ traces.response[2].costs[1] = RInt(1500)
    /\ traces.response[2].costs[2] = RInt(1500)
    /\ RLt(RInt(1500), traces.response[2].costs[36])
    /\ Len(traces.booking) >= 3

====
